---- MODULE Spec2Model ----
(***************************************************************************)
(* Model of src/api/generate_posts.py: the content generator with its      *)
(* fallback model, the post composer, the per-day review store and the     *)
(* three HTTP endpoints.                                                   *)
(*                                                                         *)
(* Strings.  A Python str is a sequence of segments [t, k, n, e]: n        *)
(* characters that come from the source named by tag t (k tells two        *)
(* sources of one tag apart), each character taking e characters once      *)
(* json.dump has escaped it (1: plain ASCII, 2: a two-character backslash  *)
(* escape such as a quote or a newline, 6: a \uXXXX escape).  Lengths,     *)
(* slices and concatenations are computed on the segments.                 *)
(***************************************************************************)
EXTENDS Integers, Sequences, FiniteSets, TLC

VARIABLES
    key,            \* CONFIG['huggingface_api_key']
    manual_review,  \* CONFIG['manual_review']
    webhook,        \* os.getenv('ZAPIER_WEBHOOK')
    today,          \* the calendar day datetime.now() falls in
    dir,            \* CONFIG['output_dir'] on disk
    file,           \* the file posts_<today>.json in the output directory
    nextId,         \* number of uuid4 values drawn so far
    runs,           \* batches saved successfully so far today, oldest first
    resp,           \* the outcome of the last endpoint request
    gen,            \* the last create_post call made on its own
    store           \* the last save_posts_for_review / load_pending_posts calls made on their own

vars == <<key, manual_review, webhook, today, dir, file, nextId, runs, resp, gen, store>>

---------------------------------------------------------------------------
(* Bounds of the model *)

MaxDay == 1
MaxRuns == 2
MaxScenario == 2
MaxBatch == 2

---------------------------------------------------------------------------
(* Program constants *)

post_count_per_day == 4
MinWords == 300
MaxChars == 3000
UuidLen == 36
IsoLen == 26
PathLen == 38

Primary == "google/flan-t5-large"
Fallback == "t5-small"

\* len() of each entry of CONFIG['content_topics']
TopicLen == <<21, 15, 18, 20, 15>>

\* each entry of CONFIG['post_templates'], as the lengths of its literal text
\* before {topic}, between {topic} and {content}, and after {content}
TemplateParts ==
    << [pre |-> 20, mid |-> 2,  suf |-> 72],
       [pre |-> 14, mid |-> 2,  suf |-> 90],
       [pre |-> 17, mid |-> 2,  suf |-> 68],
       [pre |-> 26, mid |-> 2,  suf |-> 75],
       [pre |-> 0,  mid |-> 22, suf |-> 81] >>

\* the static paragraph: "Exploring " + topic + " today! Recent ... growth."
FillerParts == [pre |-> 10, suf |-> 394]

Topics == DOMAIN TopicLen
Templates == DOMAIN TemplateParts

---------------------------------------------------------------------------
(* Strings *)

\* a literal or generated run of n characters; the empty run is the empty string
Seg(t, k, n, e) == IF n = 0 THEN <<>> ELSE <<[t |-> t, k |-> k, n |-> n, e |-> e]>>

RECURSIVE StrLen(_)
StrLen(s) == IF s = <<>> THEN 0 ELSE Head(s).n + StrLen(Tail(s))

\* s[:m]
RECURSIVE Slice(_, _)
Slice(s, m) ==
    IF s = <<>> \/ m <= 0 THEN <<>>
    ELSE IF Head(s).n <= m THEN <<Head(s)>> \o Slice(Tail(s), m - Head(s).n)
    ELSE <<[Head(s) EXCEPT !.n = m]>>

\* an Optional[str]: None, or a str
PyNone == [none |-> TRUE, str |-> <<>>]
PyStr(s) == [none |-> FALSE, str |-> s]

\* not x, for x a str or None
Falsy(x) == x.none \/ x.str = <<>>

TopicStr(topic) == Seg("topic", topic, TopicLen[topic], 1)

---------------------------------------------------------------------------
(* The generation service as one call sees it *)

\* os.getenv('HUGGINGFACE_API_KEY'): unset, set to the empty string, or set
GoodKey == PyStr(Seg("key", 0, 37, 1))
Keys == {PyNone, PyStr(<<>>), GoodKey}

\* One answer of the service to one requests.post: a non-2xx response, a
\* transport failure, a 2xx response whose body is not [{"generated_text": str}],
\* or a 2xx response carrying a text: lead and trail are the whitespace around
\* it, n its stripped length, words what len(text.split()) gives.
OkResponse(lead, n, words, trail, e) ==
    [kind |-> "ok", lead |-> lead, n |-> n, words |-> words, trail |-> trail, e |-> e]

Failures == { [kind |-> "http_error"], [kind |-> "transport_error"], [kind |-> "malformed"] }

Texts ==
    { OkResponse(0, 0, 0, 1, 1),
      OkResponse(1, 800, 120, 1, 1),
      OkResponse(0, 1900, 299, 0, 2),
      OkResponse(0, 1900, 300, 1, 1),
      OkResponse(0, 3300, 299, 0, 1),
      OkResponse(2, 3400, 520, 0, 6) }

Responses == Failures \cup Texts

\* What the service answers to the first and to the follow-up request, for the
\* fallback model and for any other model.
Tiers == {"fallback", "other"}
Kinds == {"first", "cont"}
Upstreams == [Tiers \X Kinds -> Responses]

Tier(model) == IF model = Fallback THEN "fallback" ELSE "other"
TierNo(model) == IF model = Fallback THEN 2 ELSE 1
Answer(up, model, kind) == up[<<Tier(model), kind>>]

\* the text of response.json()[0]['generated_text']
RawText(r, tag, k) == Seg("ws", 0, r.lead, 1) \o Seg(tag, k, r.n, r.e) \o Seg("ws", 1, r.trail, 1)

RECURSIVE LStrip(_)
LStrip(s) == IF s # <<>> /\ Head(s).t = "ws" THEN LStrip(Tail(s)) ELSE s

RECURSIVE RStrip(_)
RStrip(s) == IF s # <<>> /\ s[Len(s)].t = "ws" THEN RStrip(SubSeq(s, 1, Len(s) - 1)) ELSE s

\* str.strip()
Strip(s) == RStrip(LStrip(s))

\* the exception a failed request raises inside the try block
Raises(r) ==
    CASE r.kind = "http_error" -> "HTTPError"
      [] r.kind = "transport_error" -> "ConnectionError"
      [] r.kind = "malformed" -> "KeyError"

---------------------------------------------------------------------------
(* generate_content_with_huggingface *)

\* len(generated_text.split()) < 300
NeedsFollowUp_never(words) == FALSE
NeedsFollowUp(words) == words < MinWords

\* the except clause that takes an exception raised in the try block
Handler_narrow(exc) ==
    IF exc = "HTTPError" THEN "except_http"
    ELSE IF exc = "ConnectionError" THEN "except_any" ELSE "uncaught"
Handler(exc) == IF exc = "HTTPError" THEN "except_http" ELSE "except_any"

\* model != "t5-small"
ShouldFallback_never(model) == FALSE
ShouldFallback(model) == model # Fallback

\* the model the except clauses pass to the recursive call
RetryModel_viaBase(model) == IF model = Primary THEN "google/flan-t5-base" ELSE Fallback
RetryModel(model) == Fallback

\* one requests.post of the function: the model asked, which request, the answer
Call(model, kind, r) == [model |-> model, kind |-> kind, got |-> r]

\* The try block: the first request, the follow-up request when the text is
\* short, and the truncation.  ok is FALSE when an exception left the block.
TryBody(topic, model, up) ==
    LET r1 == Answer(up, model, "first")
        c1 == <<Call(model, "first", r1)>>
    IN  IF r1.kind # "ok"
        THEN [ok |-> FALSE, exc |-> Raises(r1), calls |-> c1, text |-> <<>>]
        ELSE LET generated_text == Strip(RawText(r1, "first", TierNo(model)))
             IN  IF NeedsFollowUp(r1.words)
                 THEN LET r2 == Answer(up, model, "cont")
                          c2 == c1 \o <<Call(model, "cont", r2)>>
                      IN  IF r2.kind # "ok"
                          THEN [ok |-> FALSE, exc |-> Raises(r2), calls |-> c2, text |-> <<>>]
                          ELSE LET follow_up_text == Strip(RawText(r2, "cont", TierNo(model)))
                               IN  [ok |-> TRUE, exc |-> "", calls |-> c2,
                                    text |-> Slice(generated_text \o Seg("sp", 0, 1, 1)
                                                       \o follow_up_text, MaxChars)]
                 ELSE [ok |-> TRUE, exc |-> "", calls |-> c1,
                       text |-> Slice(generated_text, MaxChars)]

Filler(topic) ==
    Seg("filler", 0, FillerParts.pre, 1) \o TopicStr(topic) \o Seg("filler", 1, FillerParts.suf, 1)

\* The whole function.  raised: an exception reached the caller (status is its
\* HTTP status); value: the returned str; from: the return statement taken;
\* calls: the requests made, in order; models: the model of each invocation,
\* the outermost first.
RECURSIVE generate_content_with_huggingface(_, _, _, _)
generate_content_with_huggingface(topic, model, k, up) ==
    IF Falsy(k)
    THEN [raised |-> TRUE, status |-> 500, value |-> <<>>, from |-> "raise",
          calls |-> <<>>, models |-> <<model>>]
    ELSE LET t == TryBody(topic, model, up)
         IN  IF t.ok
             THEN [raised |-> FALSE, status |-> 200, value |-> t.text, from |-> "text",
                   calls |-> t.calls, models |-> <<model>>]
             ELSE IF Handler(t.exc) = "uncaught"
             THEN [raised |-> TRUE, status |-> 500, value |-> <<>>, from |-> "raise",
                   calls |-> t.calls, models |-> <<model>>]
             ELSE IF ShouldFallback(model)
             THEN LET r == generate_content_with_huggingface(topic, RetryModel(model), k, up)
                  IN  [r EXCEPT !.calls = t.calls \o @, !.models = <<model>> \o @]
             ELSE [raised |-> FALSE, status |-> 200, value |-> Filler(topic), from |-> "filler",
                   calls |-> t.calls, models |-> <<model>>]

---------------------------------------------------------------------------
(* create_post *)

\* str(uuid.uuid4()): the n-th value drawn
uuid4_same(n) == Seg("uuid", 1, UuidLen, 1)
uuid4(n) == Seg("uuid", n, UuidLen, 1)

\* datetime.now().isoformat()
isoformat(day) == Seg("iso", day, IsoLen, 1)

\* template.format(topic=topic, content=content)
Format(template, topic, content) ==
    LET p == TemplateParts[template]
    IN  Seg("tpl_pre", template, p.pre, 1) \o TopicStr(topic) \o Seg("tpl_mid", template, p.mid, 1)
            \o content \o Seg("tpl_suf", template, p.suf, 1)

\* topic and template are what the two random.choice calls return, n the number
\* of uuid4 values drawn before.  An exception of the generator passes through.
create_post(topic, template, n, day, k, up) ==
    LET g == generate_content_with_huggingface(topic, Primary, k, up)
    IN  IF g.raised
        THEN [raised |-> TRUE, status |-> g.status, g |-> g]
        ELSE [raised |-> FALSE, status |-> 200, g |-> g,
              post |-> [id |-> uuid4(n + 1),
                        text |-> Format(template, topic, g.value),
                        topic |-> TopicStr(topic),
                        created_at |-> isoformat(day)]]

---------------------------------------------------------------------------
(* json.dump and json.load *)

Quote == [t |-> "quote", k |-> 0, n |-> 1, e |-> 1]

\* a str as a JSON string literal: quoted, every character escaped as its class asks
EncStr(s) == <<Quote>> \o [i \in 1..Len(s) |-> [s[i] EXCEPT !.n = @ * s[i].e]] \o <<Quote>>

\* the str a JSON string literal stands for
DecStr_raw(j) == [i \in 1..(Len(j) - 2) |-> j[i + 1]]
DecStr(j) == [i \in 1..(Len(j) - 2) |-> [j[i + 1] EXCEPT !.n = @ \div j[i + 1].e]]

\* a post dict as a JSON object: its members in insertion order
EncObj(p) ==
    << <<"id", EncStr(p.id)>>, <<"text", EncStr(p.text)>>,
       <<"topic", EncStr(p.topic)>>, <<"created_at", EncStr(p.created_at)>> >>

Member(m, name) == m[CHOOSE i \in DOMAIN m : m[i][1] = name][2]

DecObj(m) ==
    [id |-> DecStr(Member(m, "id")), text |-> DecStr(Member(m, "text")),
     topic |-> DecStr(Member(m, "topic")), created_at |-> DecStr(Member(m, "created_at"))]

\* json.dump(posts, f, indent=2): the document written
json_dump(posts) == [type |-> "array", items |-> [i \in DOMAIN posts |-> EncObj(posts[i])]]

\* json.load(f) of a well-formed document: a list of dicts, or another value
json_load(doc) ==
    IF doc.type = "array"
    THEN [type |-> "list", items |-> [i \in DOMAIN doc.items |-> DecObj(doc.items[i])]]
    ELSE [type |-> "dict", items |-> <<>>]

PyList(posts) == [type |-> "list", items |-> posts]

---------------------------------------------------------------------------
(* The review store *)

Missing == [kind |-> "missing"]
Garbage == [kind |-> "garbage"]
Json(doc) == [kind |-> "json", doc |-> doc]
\* a well-formed document that is no list of posts, such as {"a": 1}
NotAList == Json([type |-> "object", items |-> <<>>])

\* str(Path(CONFIG['output_dir']) / f'posts_{today}.json')
PathStr(day) == Seg("path", day, PathLen, 1)

\* what open(file_path, 'w') followed by json.dump leaves on disk
Written_append(old, posts) ==
    IF old.kind = "json" /\ old.doc.type = "array"
    THEN Json([type |-> "array", items |-> old.doc.items \o json_dump(posts).items])
    ELSE Json(json_dump(posts))
Written(old, posts) == Json(json_dump(posts))

\* io is how the file system takes the write: "ok", "open_fails" (the file
\* cannot be opened for writing) or "write_fails" (the file is opened, hence
\* truncated, and the dump fails).  Returns the path or None, and the file.
save_posts_for_review(posts, day, d, old, io) ==
    IF d # "present" \/ io = "open_fails"
    THEN [path |-> PyNone, file |-> old]
    ELSE IF io = "write_fails"
    THEN [path |-> PyNone, file |-> Garbage]
    ELSE [path |-> PyStr(PathStr(day)), file |-> Written(old, posts)]

\* every exception of open and json.load gives []
load_pending_posts(d, f) ==
    IF d # "present" \/ f.kind # "json" THEN PyList(<<>>) ELSE json_load(f.doc)

\* os.makedirs(CONFIG['output_dir'], exist_ok=True): the directory afterwards,
\* or the OSError raised
ensure_output_dir(d) ==
    IF d = "blocked" THEN [raised |-> TRUE, dir |-> d] ELSE [raised |-> FALSE, dir |-> "present"]

---------------------------------------------------------------------------
(* The publisher *)

\* How the webhook takes one relay, and how the platform takes one publish call
RelayOutcomes == {"ok", "fails"}
RelayPatterns ==
    { [i \in 1..post_count_per_day |-> "ok"], [i \in 1..post_count_per_day |-> "fails"],
      [i \in 1..post_count_per_day |-> IF i = 1 THEN "ok" ELSE "fails"] }
PublishOutcomes ==
    { [kind |-> "ok", status |-> 201], [kind |-> "http_error", status |-> 401],
      [kind |-> "http_error", status |-> 422], [kind |-> "transport_error", status |-> 0] }

\* post_to_zapier never raises: "skipped" without a webhook, else "sent" or "failed"
post_to_zapier(post, hook, outcome) ==
    IF Falsy(hook) THEN "skipped" ELSE IF outcome = "ok" THEN "sent" ELSE "failed"

\* post_to_linkedin: the result dict, or the HTTPException raised
post_to_linkedin(post_text, pub) ==
    IF pub.kind = "ok" THEN [raised |-> FALSE, status |-> 200]
    ELSE IF pub.kind = "http_error" THEN [raised |-> TRUE, status |-> pub.status]
    ELSE [raised |-> TRUE, status |-> 500]

---------------------------------------------------------------------------
(* The endpoints *)

NoResp ==
    [endpoint |-> "none", status |-> 0, error |-> "", posts |-> PyList(<<>>),
     file_path |-> PyNone, published |-> FALSE, post_id |-> <<>>, relay |-> <<>>]

Raised(endpoint, status, error) ==
    [NoResp EXCEPT !.endpoint = endpoint, !.status = status, !.error = error]

\* x or y
Or(x, y) == IF Falsy(x) THEN y ELSE x

ErrorSavingFile == PyStr(Seg("lit", 0, 17, 1))

\* next((p for p in posts if p['id'] == post_id), None): the index found, 0 for None
FindPost_first(posts, post_id) == IF posts = <<>> THEN 0 ELSE 1
FindPost(posts, post_id) ==
    IF \E i \in DOMAIN posts : posts[i].id = post_id
    THEN CHOOSE i \in DOMAIN posts :
            /\ posts[i].id = post_id
            /\ \A j \in DOMAIN posts : posts[j].id = post_id => i <= j
    ELSE 0

\* The answers of the generation service, the topic and the template that one
\* create_post call of a batch meets.
UpAll(r) == [x \in Tiers \X Kinds |-> r]

Scenario(i) ==
    [topic |-> ((i - 1) % Len(TopicLen)) + 1,
     template |-> ((i - 1) % Len(TemplateParts)) + 1,
     up |-> CASE i % 3 = 1 -> UpAll(OkResponse(0, 1900, 300, 1, 1))
              [] i % 3 = 2 -> UpAll([kind |-> "http_error"])
              [] i % 3 = 0 -> UpAll(OkResponse(1, 800, 120, 1, 2))]

\* [create_post() for _ in range(CONFIG['post_count_per_day'])]
Batch(sc, n, day, k) ==
    [i \in 1..post_count_per_day |->
        create_post(Scenario(sc[i]).topic, Scenario(sc[i]).template, n + i - 1, day, k,
                    Scenario(sc[i]).up)]

\* the scenarios of one batch: consecutive ones, starting at first
Rotation(first) == [i \in 1..post_count_per_day |-> ((first + i - 2) % MaxScenario) + 1]

Ids(posts) == [i \in DOMAIN posts |-> posts[i].id]

GeneratePosts ==
    /\ nextId + post_count_per_day <= post_count_per_day * MaxRuns
    /\ LET made == ensure_output_dir(dir)
       IN  IF made.raised
           THEN /\ resp' = Raised("generate", 500, "OSError")
                /\ UNCHANGED <<dir, file, nextId, runs>>
           ELSE /\ dir' = made.dir
                /\ IF Falsy(key)
                   THEN /\ resp' = Raised("generate",
                                          Batch(Rotation(1), nextId, today, key)[1].status,
                                          "HTTPException")
                        /\ UNCHANGED <<file, nextId, runs>>
                   ELSE \E first \in 1..MaxScenario :
                        LET b == Batch(Rotation(first), nextId, today, key)
                            posts == [i \in DOMAIN b |-> b[i].post]
                        IN  /\ nextId' = nextId + post_count_per_day
                            /\ IF manual_review
                               THEN \E io \in {"ok", "open_fails", "write_fails"} :
                                    LET sv == save_posts_for_review(posts, today, made.dir, file, io)
                                    IN  /\ file' = sv.file
                                        /\ runs' = IF sv.path.none THEN runs ELSE Append(runs, Ids(posts))
                                        /\ resp' = [NoResp EXCEPT !.endpoint = "generate", !.status = 200,
                                                       !.posts = PyList(posts),
                                                       !.file_path = Or(sv.path, ErrorSavingFile)]
                               ELSE \E out \in RelayPatterns :
                                    /\ resp' = [NoResp EXCEPT !.endpoint = "generate", !.status = 200,
                                                   !.posts = PyList(posts),
                                                   !.relay = [i \in DOMAIN posts |->
                                                                post_to_zapier(posts[i], webhook, out[i])]]
                                    /\ UNCHANGED <<file, runs>>
    /\ UNCHANGED <<key, manual_review, webhook, today, gen, store>>

GetPendingPosts ==
    /\ resp' = [NoResp EXCEPT !.endpoint = "get", !.status = 200,
                              !.posts = load_pending_posts(dir, file)]
    /\ UNCHANGED <<key, manual_review, webhook, today, dir, file, nextId, runs, gen, store>>

\* the post_id values a caller sends: every id issued so far, one never issued, the empty string
PostIds == {uuid4(i) : i \in 0..nextId} \cup {<<>>}

\* The handler's outcome for one body, loaded being what load_pending_posts()
\* returned and pub how the platform takes the publish call, if one is made.  A
\* value that is no list of dicts makes p['id'] raise inside the generator
\* expression.
upload_post(post_id, loaded, pub) ==
    IF loaded.type # "list"
    THEN [Raised("upload", 500, "TypeError") EXCEPT !.post_id = post_id]
    ELSE LET i == FindPost(loaded.items, post_id)
         IN  IF i = 0
             THEN [Raised("upload", 404, "HTTPException") EXCEPT !.post_id = post_id]
             ELSE LET r == post_to_linkedin(loaded.items[i].text, pub)
                  IN  IF r.raised
                      THEN [Raised("upload", r.status, "HTTPException") EXCEPT
                               !.post_id = post_id, !.published = TRUE]
                      ELSE [NoResp EXCEPT !.endpoint = "upload", !.status = 200,
                               !.post_id = post_id, !.published = TRUE,
                               !.posts = PyList(<<loaded.items[i]>>)]

UploadPost ==
    /\ LET loaded == load_pending_posts(dir, file)
       IN  \E post_id \in PostIds :
              IF loaded.type = "list" /\ FindPost(loaded.items, post_id) # 0
              THEN \E pub \in PublishOutcomes : resp' = upload_post(post_id, loaded, pub)
              ELSE resp' = upload_post(post_id, loaded, [kind |-> "none", status |-> 0])
    /\ UNCHANGED <<key, manual_review, webhook, today, dir, file, nextId, runs, gen, store>>

---------------------------------------------------------------------------
(* The environment *)

IdleStore == [op |-> "none", saved |-> <<>>, day |-> 0, clean |-> FALSE, loaded |-> PyList(<<>>)]

\* the date changes: the path of today's file is one no run has written
Midnight ==
    /\ today < MaxDay
    /\ today' = today + 1
    /\ file' = Missing
    /\ runs' = <<>>
    /\ resp' = NoResp
    /\ store' = [store EXCEPT !.op = "none"]
    /\ UNCHANGED <<key, manual_review, webhook, dir, nextId, gen>>

\* another process removes today's file or rewrites it
ExternalWrite ==
    /\ dir = "present"
    /\ \E f \in {Missing, Garbage, NotAList} : f # file /\ file' = f
    /\ resp' = NoResp
    /\ store' = [store EXCEPT !.op = "none", !.clean = FALSE]
    /\ UNCHANGED <<key, manual_review, webhook, today, dir, nextId, runs, gen>>

---------------------------------------------------------------------------
(* The service: requests handled one at a time, each to completion *)

Init ==
    /\ key \in {PyNone, GoodKey}
    /\ manual_review \in BOOLEAN
    /\ webhook \in {PyNone, PyStr(Seg("url", 0, 40, 1))}
    /\ manual_review => webhook = PyNone
    /\ today = 0
    /\ dir \in {"absent", "blocked"}
    /\ file = Missing
    /\ nextId = 0
    /\ runs = <<>>
    /\ resp = NoResp
    /\ gen = [pc |-> "idle"]
    /\ store = IdleStore

Next == GeneratePosts \/ GetPendingPosts \/ UploadPost \/ Midnight \/ ExternalWrite

Spec == Init /\ [][Next]_vars

---------------------------------------------------------------------------
(* create_post called on its own, over every answer of the service *)

CallCreatePost ==
    /\ gen.pc = "idle"
    /\ \E topic \in Topics, template \in Templates, up \in Upstreams :
          gen' = [pc |-> "returned", topic |-> topic, template |-> template,
                  out |-> create_post(topic, template, nextId, today, key, up)]
    /\ UNCHANGED <<key, manual_review, webhook, today, dir, file, nextId, runs, resp, store>>

ReturnCreatePost ==
    /\ gen.pc = "returned"
    /\ gen' = [pc |-> "idle"]
    /\ UNCHANGED <<key, manual_review, webhook, today, dir, file, nextId, runs, resp, store>>

InitGen ==
    /\ key \in Keys
    /\ manual_review = TRUE
    /\ webhook = PyNone
    /\ today = 0
    /\ dir = "present"
    /\ file = Missing
    /\ nextId = 0
    /\ runs = <<>>
    /\ resp = NoResp
    /\ gen = [pc |-> "idle"]
    /\ store = IdleStore

NextGen == CallCreatePost \/ ReturnCreatePost

SpecGen == InitGen /\ [][NextGen]_vars

---------------------------------------------------------------------------
(* save_posts_for_review and load_pending_posts called on their own *)

\* posts whose texts need no escape, two-character escapes and \uXXXX escapes
PostPool ==
    { create_post(1, 1, 0, 0, GoodKey, UpAll(OkResponse(0, 1900, 300, 1, 1))).post,
      create_post(2, 3, 1, 0, GoodKey, UpAll(OkResponse(0, 1900, 299, 0, 2))).post,
      create_post(5, 5, 2, 0, GoodKey, UpAll(OkResponse(2, 3400, 520, 0, 6))).post }

Batches == UNION { [1..m -> PostPool] : m \in 0..MaxBatch }

StoreSave ==
    /\ \E posts \in Batches, io \in {"ok", "open_fails", "write_fails"} :
          LET sv == save_posts_for_review(posts, today, dir, file, io)
          IN  /\ file' = sv.file
              /\ store' = IF sv.path.none
                          THEN [store EXCEPT !.op = "save_failed",
                                             !.clean = store.clean /\ io # "write_fails"]
                          ELSE [op |-> "save", saved |-> posts, day |-> today, clean |-> TRUE,
                                loaded |-> PyList(<<>>)]
    /\ UNCHANGED <<key, manual_review, webhook, today, dir, nextId, runs, resp, gen>>

StoreLoad ==
    /\ store' = [store EXCEPT !.op = "load", !.loaded = load_pending_posts(dir, file)]
    /\ UNCHANGED <<key, manual_review, webhook, today, dir, file, nextId, runs, resp, gen>>

EnsureDir ==
    /\ ~ensure_output_dir(dir).raised
    /\ dir' = ensure_output_dir(dir).dir
    /\ dir' # dir
    /\ UNCHANGED <<key, manual_review, webhook, today, file, nextId, runs, resp, gen, store>>

InitStore ==
    /\ key = GoodKey
    /\ manual_review = TRUE
    /\ webhook = PyNone
    /\ today = 0
    /\ dir = "absent"
    /\ file = Missing
    /\ nextId = 0
    /\ runs = <<>>
    /\ resp = NoResp
    /\ gen = [pc |-> "idle"]
    /\ store = IdleStore

NextStore == StoreSave \/ StoreLoad \/ EnsureDir \/ Midnight \/ ExternalWrite

SpecStore == InitStore /\ [][NextStore]_vars

---------------------------------------------------------------------------
(* Properties of generate_content_with_huggingface and create_post (SpecGen) *)

Returned == gen.pc = "returned"
G == gen.out.g
Configured == ~key.none /\ key.str # <<>>

CallsTo(model) == SelectSeq(G.calls, LAMBDA c : c.model = model)
CallsOf(model, kind) == SelectSeq(G.calls, LAMBDA c : c.model = model /\ c.kind = kind)
Count(seq, x) == Cardinality({i \in DOMAIN seq : seq[i] = x})

\* the attempt on a model ended in an exception: its last request did not
\* give a usable text
Failed(model) ==
    /\ CallsTo(model) # <<>>
    /\ CallsTo(model)[Len(CallsTo(model))].got.kind # "ok"

\* C1: with a configured credential, a failed attempt on the primary model is
\* followed by exactly one invocation for t5-small; the static paragraph is
\* returned exactly when the attempt on t5-small has failed as well, and
\* t5-small is never invoked a second time.
C1_OneFallbackThenFiller ==
    (Returned /\ Configured) =>
        /\ G.models[1] = Primary
        /\ Failed(Primary) => G.models = <<Primary, Fallback>>
        /\ ~Failed(Primary) => G.models = <<Primary>>
        /\ Count(G.models, Fallback) <= 1
        /\ Len(CallsOf(Fallback, "first")) <= 1
        /\ (G.from = "filler") <=> (Failed(Primary) /\ Failed(Fallback))
        /\ G.from = "filler" =>
              /\ G.calls[Len(G.calls)].model = Fallback
              /\ G.value = Seg("filler", 0, 10, 1) \o Seg("topic", gen.topic, TopicLen[gen.topic], 1)
                               \o Seg("filler", 1, 394, 1)

C1_Witness ==
    /\ Returned /\ Configured
    /\ Failed(Primary) /\ Failed(Fallback)
    /\ G.models = <<Primary, Fallback>>
    /\ G.from = "filler"
    /\ CallsTo(Primary)[1].got.kind = "transport_error"

Short(c) == c.got.kind = "ok" /\ c.got.words < 300

\* the str a response carries once stripped
Body(c, tag) ==
    IF c.got.n = 0 THEN <<>>
    ELSE <<[t |-> tag, k |-> IF c.model = Fallback THEN 2 ELSE 1, n |-> c.got.n, e |-> c.got.e]>>

Space == <<[t |-> "sp", k |-> 0, n |-> 1, e |-> 1]>>

\* C2 as stated: whenever some first response of the invocation is successful
\* and shorter than 300 words, exactly one follow-up request is made during the
\* invocation and the returned text is the first text followed by the
\* follow-up text.
C2_Original ==
    (Returned /\ Configured /\ \E i \in DOMAIN G.calls : G.calls[i].kind = "first" /\ Short(G.calls[i])) =>
        /\ Cardinality({i \in DOMAIN G.calls : G.calls[i].kind = "cont"}) = 1
        /\ \E i \in DOMAIN G.calls :
              /\ G.calls[i].kind = "first" /\ Short(G.calls[i])
              /\ i < Len(G.calls)
              /\ G.calls[i + 1].got.kind = "ok"
              /\ G.value = Body(G.calls[i], "first") \o Space \o Body(G.calls[i + 1], "cont")

\* C2, amended: for each model tried, a successful first response shorter than
\* 300 words is followed by exactly one follow-up request to the same model,
\* made right after it, and a longer one by none; when the follow-up succeeds
\* too, the invocation returns the first text, a space and the follow-up text,
\* cut to 3000 characters.
C2_FollowUpPerModel ==
    (Returned /\ Configured) =>
        \A i \in DOMAIN G.calls :
            LET c == G.calls[i]
            IN  /\ (c.kind = "first" /\ Short(c)) =>
                      /\ Len(CallsOf(c.model, "cont")) = 1
                      /\ i < Len(G.calls)
                      /\ G.calls[i + 1] = CallsOf(c.model, "cont")[1]
                      /\ G.calls[i + 1].got.kind = "ok" =>
                            /\ G.from = "text"
                            /\ i + 1 = Len(G.calls)
                            /\ G.value = Slice(Body(c, "first") \o Space \o Body(G.calls[i + 1], "cont"), 3000)
                /\ (c.kind = "first" /\ ~Short(c)) => CallsOf(c.model, "cont") = <<>>

C2_Witness ==
    /\ Returned /\ Configured
    /\ Len(G.calls) = 4
    /\ Short(G.calls[1]) /\ G.calls[2].got.kind = "http_error"
    /\ Short(G.calls[3]) /\ G.calls[4].got.kind = "ok"
    /\ G.calls[3].got.n = 800 /\ G.calls[4].got.n = 1900
    /\ StrLen(G.value) = 2701

\* C3 as stated: one invocation makes at most three requests.
C3_Original == (Returned /\ Configured) => Len(G.calls) <= 3

\* C3, amended: one invocation makes at most four requests: for the primary
\* model and then for t5-small, one first request and at most one follow-up
\* request each, and none for a model other than these two.
C3_AtMostFourRequests ==
    (Returned /\ Configured) =>
        /\ Len(G.calls) <= 4
        /\ \A i \in DOMAIN G.calls : G.calls[i].model \in {Primary, Fallback}
        /\ \A m \in {Primary, Fallback} :
              Len(CallsOf(m, "first")) <= 1 /\ Len(CallsOf(m, "cont")) <= 1
        /\ G.calls = CallsTo(Primary) \o CallsTo(Fallback)
        /\ Len(CallsOf(Primary, "first")) = 1

C3_Witness ==
    /\ Returned /\ Configured
    /\ Len(G.calls) = 4
    /\ G.from = "filler"

\* C4: create_post's generator call raises to its caller exactly when the
\* credential is unset or empty; with a credential, whatever the service
\* answers, a str is returned (the generated text or the static paragraph).
C4_RaisesIffNoCredential ==
    Returned =>
        /\ gen.out.raised <=> (key.none \/ key.str = <<>>)
        /\ G.raised <=> gen.out.raised
        /\ ~G.raised => G.from \in {"text", "filler"}
        /\ G.raised => G.status = 500 /\ G.calls = <<>>

C4_Witness ==
    /\ Returned /\ Configured
    /\ ~gen.out.raised
    /\ Len(G.calls) = 4
    /\ G.calls[2].got.kind = "malformed"
    /\ G.calls[4].got.kind = "malformed"

\* C9: the text of every post create_post returns has at most 3000 characters.
C9_TextWithinLimit ==
    (Returned /\ ~gen.out.raised) => StrLen(gen.out.post.text) <= 3000

---------------------------------------------------------------------------
(* Properties of the review store (SpecStore) *)

\* C6: a successful save_posts_for_review(posts) followed, on the same day and
\* with no other write to the day's file in between, by load_pending_posts()
\* gives back the same posts: the same id, text, topic and created_at, in the
\* same order.
C6_SaveLoadRoundTrip ==
    (store.op = "load" /\ store.clean /\ store.day = today) =>
        /\ store.loaded.type = "list"
        /\ store.loaded.items = store.saved

C6_Witness ==
    /\ store.op = "load" /\ store.clean /\ store.day = today
    /\ Len(store.saved) = MaxBatch
    /\ \E i \in DOMAIN store.saved : \E j \in DOMAIN store.saved[i].text :
          store.saved[i].text[j].e = 6
    /\ \E i \in DOMAIN store.saved : \E j \in DOMAIN store.saved[i].text :
          store.saved[i].text[j].e = 2
    /\ store.loaded.items = store.saved

---------------------------------------------------------------------------
(* Properties of the endpoints (Spec) *)

\* the ids of the posts of today's file, when it holds a list of posts
OnDisk == dir = "present" /\ file.kind = "json" /\ file.doc.type = "array"
QueueIds ==
    IF OnDisk
    THEN {DecStr(Member(file.doc.items[i], "id")) : i \in DOMAIN file.doc.items}
    ELSE {}

\* today's file is missing, unparseable, or a list of posts
QueueOrNothing == dir # "present" \/ file.kind \in {"missing", "garbage"} \/ OnDisk

IsPath(x) == ~x.none /\ x.str # <<>> /\ x.str[1].t = "path"

Distinct(seq) == \A i, j \in DOMAIN seq : i # j => seq[i] # seq[j]

\* C7 as stated, read in the claim's favour as a claim about the requests that
\* return posts at all: every such /generate-posts request in manual-review
\* mode returns 4 posts with pairwise distinct ids, and today's file then
\* holds those 4.
C7_Original ==
    (resp.endpoint = "generate" /\ manual_review /\ resp.status = 200) =>
        /\ Len(resp.posts.items) = 4
        /\ Distinct(Ids(resp.posts.items))
        /\ OnDisk
        /\ load_pending_posts(dir, file) = resp.posts

\* C7, amended: a /generate-posts request in manual-review mode that ends in a
\* normal response returns 4 posts with pairwise distinct ids; when its
\* file_path is the path of today's file, that file holds exactly those 4
\* records, and otherwise file_path is the placeholder and the file does not
\* hold them.
C7_FourPostsSaved ==
    (resp.endpoint = "generate" /\ manual_review /\ resp.status = 200) =>
        /\ Len(resp.posts.items) = 4
        /\ Distinct(Ids(resp.posts.items))
        /\ IsPath(resp.file_path) =>
              /\ OnDisk
              /\ Len(file.doc.items) = 4
              /\ load_pending_posts(dir, file) = resp.posts
        /\ ~IsPath(resp.file_path) =>
              /\ resp.file_path = [none |-> FALSE, str |-> <<[t |-> "lit", k |-> 0, n |-> 17, e |-> 1]>>]
              /\ load_pending_posts(dir, file) # resp.posts

C7_Witness ==
    /\ resp.endpoint = "generate" /\ manual_review /\ resp.status = 200
    /\ IsPath(resp.file_path)
    /\ today = 1
    /\ Len(file.doc.items) = 4
    /\ \E i \in 1..4 : resp.posts.items[i].text # resp.posts.items[1].text

\* C8: a request ends in an error response only for a missing generation
\* credential, for a failed publish call, or for an unknown post_id (404).
C8_OnlyDocumentedErrors ==
    (resp.endpoint # "none" /\ resp.status # 200) =>
        \/ resp.endpoint = "generate" /\ (key.none \/ key.str = <<>>) /\ resp.error = "HTTPException"
        \/ resp.endpoint = "upload" /\ resp.published
        \/ resp.endpoint = "upload" /\ resp.status = 404 /\ resp.post_id \notin QueueIds

\* C10: right after a manual-review /generate-posts run that saved its batch,
\* today's queue holds exactly that batch: load_pending_posts returns it and
\* nothing else, and /upload-post with an id of any earlier run of the day
\* ends with a 404, whatever the platform would answer.
C10_LastRunOnly ==
    (resp.endpoint = "generate" /\ manual_review /\ resp.status = 200 /\ IsPath(resp.file_path)) =>
        /\ load_pending_posts(dir, file) = resp.posts
        /\ runs # <<>> /\ runs[Len(runs)] = Ids(resp.posts.items)
        /\ \A r \in 1..(Len(runs) - 1) : \A i \in DOMAIN runs[r] : \A pub \in PublishOutcomes :
              LET u == upload_post(runs[r][i], load_pending_posts(dir, file), pub)
              IN  u.status = 404 /\ ~u.published

C10_Witness ==
    /\ resp.endpoint = "generate" /\ manual_review /\ resp.status = 200 /\ IsPath(resp.file_path)
    /\ Len(runs) = 2
    /\ Len(load_pending_posts(dir, file).items) = 4

====
